---- MODULE Spec2Model ----
(***************************************************************************)
(* A model of pdf2md (src/src/pdf2md/converter.py, src/src/pdf2md/app.py): *)
(*   - MdToPdfConverter._wrap_line, the greedy character wrap (SpecWrap);  *)
(*   - PdfConverter.convert and MdToPdfConverter.convert, with the font    *)
(*     resolution of _ensure_font, as a sequence of calls (SpecConv);      *)
(*   - Pdf2MdApp: the UI thread's handlers, the Tk "after" queue and the   *)
(*     worker thread of _convert_worker (Spec).                            *)
(* A text is a sequence of one-character strings.                          *)
(***************************************************************************)
EXTENDS Integers, Sequences, FiniteSets, TLC

VARIABLES
    \* ---- _wrap_line (converter.py 99-126)
    wline,      \* the argument `line`
    wmax,       \* the argument `max_width`
    wpos,       \* how many characters of `line` the for loop has consumed
    current,    \* the local `current`
    wrapped,    \* the local `wrapped`
    wpc,        \* "loop" | "done"
    \* ---- one converter call at a time (converter.py 44-65, 191-248)
    call,       \* the locals of the convert call in progress, or the last
    reports,    \* the percents the call has passed to progress_callback
    font,       \* MdToPdfConverter's _font_name and _font_path
    env,        \* PDF2MD_FONT_PATH, PDF2MD_FONT_DIR and the font files
    disk,       \* what the call has done to the output directory and file
    \* ---- Pdf2MdApp (app.py 94-365)
    mode,       \* self.mode: "pdf2md" | "md2pdf"
    output_dir, \* self.output_dir ("" when not chosen)
    items,      \* self.items in insertion order, with each FileItem's row
    afterq,     \* the callbacks root.after(0, ...) has queued, oldest first
    worker,     \* self.worker: a thread id, 0 for None
    threads,    \* the worker threads: locals and position of each
    dialog,     \* the message box on the screen, if any
    clicks      \* how many actions the user has taken

wrapVars == <<wline, wmax, wpos, current, wrapped, wpc>>
convVars == <<call, reports, font, env, disk>>
appVars == <<mode, output_dir, items, afterq, worker, threads, dialog, clicks>>

vars == <<wrapVars, convVars, appVars>>

(***************************************************************************)
(* Bounds of the wrap model.                                               *)
(***************************************************************************)
MaxLineLen == 4
MaxWidth == 2

\* The characters of the model: a zero-width mark, a narrow, a medium and a
\* wide glyph.
Chars == {"z", "i", "m", "W"}

\* The glyph width the font gives one character.
CharWidth(c) ==
    CASE c = "z" -> 0
      [] c \in {"i", " "} -> 1
      [] c \in {"m", "#"} -> 2
      [] OTHER   -> 3

\* pdf.get_string_width(s): the sum of the glyph widths of s.
RECURSIVE get_string_width(_)
get_string_width(s) ==
    IF s = <<>> THEN 0
    ELSE CharWidth(Head(s)) + get_string_width(Tail(s))

\* All texts over Chars of length at most n.
TextsUpTo(n) == UNION {[1..k -> Chars] : k \in 0..n}

\* The concatenation of a sequence of texts.
RECURSIVE Concat(_)
Concat(ss) == IF ss = <<>> THEN <<>> ELSE Head(ss) \o Concat(Tail(ss))

(***************************************************************************)
(* _wrap_line.  WrapChar is one pass of the body of `for char in line`     *)
(* (lines 110-122) on the locals st = [current, wrapped]; WrapTail is      *)
(* lines 124-125.                                                          *)
(***************************************************************************)
\* Three other loop bodies, to compare WrapChar with: one drops a character
\* that is too wide alone, one keeps adding to a one-character line, one
\* drops the character at which it breaks.
WrapCharDropsOverwide(st, char, max_width) ==
    LET candidate == Append(st.current, char) IN
    IF get_string_width(candidate) <= max_width
    THEN [st EXCEPT !.current = candidate]
    ELSE IF st.current # <<>>
         THEN [current |-> <<char>>, wrapped |-> Append(st.wrapped, st.current)]
         ELSE [current |-> <<>>, wrapped |-> st.wrapped]

WrapCharKeepsGrowing(st, char, max_width) ==
    LET candidate == Append(st.current, char) IN
    IF get_string_width(candidate) <= max_width \/ Len(st.current) = 1
    THEN [st EXCEPT !.current = candidate]
    ELSE IF st.current # <<>>
         THEN [current |-> <<char>>, wrapped |-> Append(st.wrapped, st.current)]
         ELSE [current |-> <<>>, wrapped |-> Append(st.wrapped, <<char>>)]

WrapCharLosesBreakChar(st, char, max_width) ==
    LET candidate == Append(st.current, char) IN
    IF get_string_width(candidate) <= max_width
    THEN [st EXCEPT !.current = candidate]
    ELSE IF st.current # <<>>
         THEN [current |-> <<>>, wrapped |-> Append(st.wrapped, st.current)]
         ELSE [current |-> <<>>, wrapped |-> Append(st.wrapped, <<char>>)]

WrapChar(st, char, max_width) ==
    LET candidate == Append(st.current, char) IN
    IF get_string_width(candidate) <= max_width
    THEN [st EXCEPT !.current = candidate]
    ELSE IF st.current # <<>>
         THEN [current |-> <<char>>, wrapped |-> Append(st.wrapped, st.current)]
         ELSE [current |-> <<>>, wrapped |-> Append(st.wrapped, <<char>>)]

WrapTail(st) ==
    IF st.current # <<>> THEN Append(st.wrapped, st.current) ELSE st.wrapped

\* The loop run over line[i..]: the locals after the last character.
RECURSIVE WrapFrom(_, _, _, _)
WrapFrom(st, line, i, max_width) ==
    IF i > Len(line) THEN st
    ELSE WrapFrom(WrapChar(st, line[i], max_width), line, i + 1, max_width)

\* _wrap_line(pdf, line, max_width), as a function of its arguments.
wrap_line(line, max_width) ==
    IF line = <<>> THEN << <<>> >>
    ELSE WrapTail(WrapFrom([current |-> <<>>, wrapped |-> <<>>], line, 1, max_width))

\* A call of _wrap_line with any line and any max width of the bounds.
WrapStart ==
    /\ wline \in TextsUpTo(MaxLineLen)
    /\ wmax \in 0..MaxWidth
    /\ wpos = 0
    /\ current = <<>>
    /\ wrapped = <<>>
    /\ wpc = "loop"

\* Lines 105-106: the empty line returns [""] at once.
WrapEmpty ==
    /\ wpc = "loop"
    /\ wline = <<>>
    /\ wrapped' = << <<>> >>
    /\ wpc' = "done"
    /\ UNCHANGED <<wline, wmax, wpos, current, convVars, appVars>>

\* Lines 110-122: one character of the for loop.
WrapStep ==
    /\ wpc = "loop"
    /\ wline # <<>>
    /\ wpos < Len(wline)
    /\ LET st == WrapChar([current |-> current, wrapped |-> wrapped],
                          wline[wpos + 1], wmax)
       IN /\ current' = st.current
          /\ wrapped' = st.wrapped
    /\ wpos' = wpos + 1
    /\ UNCHANGED <<wline, wmax, wpc, convVars, appVars>>

\* Lines 124-126: the loop is over; the rest of `current` is emitted.
WrapReturn ==
    /\ wpc = "loop"
    /\ wline # <<>>
    /\ wpos = Len(wline)
    /\ wrapped' = WrapTail([current |-> current, wrapped |-> wrapped])
    /\ wpc' = "done"
    /\ UNCHANGED <<wline, wmax, wpos, current, convVars, appVars>>

WrapNext == WrapEmpty \/ WrapStep \/ WrapReturn

Min(a, b) == IF a <= b THEN a ELSE b

(***************************************************************************)
(* int(index / total * 100) on Python floats (IEEE 754 binary64, round to  *)
(* nearest, ties to even).  A 53-bit mantissa is written as five limbs,    *)
(* most significant first: a leading limb and four limbs of 13 bits  *)
(* (4 * 13 = 52).                                                          *)
(***************************************************************************)
LimbBase == 8192

RECURSIVE Pow2(_)
Pow2(n) == IF n = 0 THEN 1 ELSE 2 * Pow2(n - 1)

\* Limbs with the last limb raised by `add`, the carry run to the front.
RECURSIVE AddToLast(_, _)
AddToLast(limbs, add) ==
    LET n == Len(limbs)
        v == limbs[n] + add
    IN IF n = 1 THEN <<v>>
       ELSE AddToLast(SubSeq(limbs, 1, n - 1), v \div LimbBase) \o <<v % LimbBase>>

\* Every limb times k, the carries run to the front.
RECURSIVE MulLimbs(_, _, _)
MulLimbs(limbs, k, carry) ==
    LET n == Len(limbs)
        v == limbs[n] * k + carry
    IN IF n = 1 THEN <<v>>
       ELSE MulLimbs(SubSeq(limbs, 1, n - 1), k, v \div LimbBase) \o <<v % LimbBase>>

\* i / t = (r / t) * 2^e with t <= r < 2t.
RECURSIVE Normalize(_, _, _)
Normalize(i, t, e) ==
    IF i >= t THEN [r |-> i, e |-> e] ELSE Normalize(2 * i, t, e - 1)

\* Long division: n more limbs of r / t (r < t) after `acc`, and the
\* remainder left.
RECURSIVE QuotLimbs(_, _, _, _)
QuotLimbs(r, t, n, acc) ==
    IF n = 0 THEN [limbs |-> acc, rem |-> r]
    ELSE QuotLimbs((r * LimbBase) % t, t, n - 1, Append(acc, (r * LimbBase) \div t))

\* The float index / total, for integers 1 <= index <= total: the mantissa
\* m (leading limb 1) and the exponent e of its leading bit.
FloatDiv(index, total) ==
    LET nm == Normalize(index, total, 0)
        q  == QuotLimbs(nm.r - total, total, 4, <<1>>)
        up == \/ 2 * q.rem > total
              \/ 2 * q.rem = total /\ q.limbs[5] % 2 = 1
        m  == IF up THEN AddToLast(q.limbs, 1) ELSE q.limbs
    IN IF m[1] = 2 THEN [m |-> <<1, 0, 0, 0, 0>>, e |-> nm.e + 1]
       ELSE [m |-> m, e |-> nm.e]

\* The float x * 100, before it is normalised: limbs p whose leading limb
\* holds the bits above the 52 low ones, with x's exponent.  The product
\* has 59 or 60 bits; the 6 or 7 low bits are rounded away.
FloatMul100(x) ==
    LET p    == MulLimbs(x.m, 100, 0)
        s    == IF p[1] >= 128 THEN 7 ELSE 6
        low  == p[5] % Pow2(s)
        half == Pow2(s - 1)
        up   == \/ low > half
                \/ low = half /\ (p[5] \div Pow2(s)) % 2 = 1
    IN [p |-> AddToLast(p, (IF up THEN Pow2(s) ELSE 0) - low), e |-> x.e]

\* int(y) for the product y: the bits of the leading limb left of the
\* binary point (y.e <= 0: the quotient was at most 1).
FloatToInt(y) == y.p[1] \div Pow2(0 - y.e)

\* min(int(index / total * 100), 100), lines 57 and 241.
percent(index, total) ==
    Min(FloatToInt(FloatMul100(FloatDiv(index, total))), 100)

Max(a, b) == IF a >= b THEN a ELSE b

(***************************************************************************)
(* Paths.  A path is its parent directory, its stem and its suffix;        *)
(* str(path) is the path itself.                                           *)
(***************************************************************************)
Path(parent, stem, suffix) == [parent |-> parent, stem |-> stem, suffix |-> suffix]

\* No path yet.
NoPath == Path("", "", "")

\* output_dir / f"{src.stem}{suffix}"
OutPath(dir, src, suffix) == Path(dir, src.stem, suffix)

(***************************************************************************)
(* MdToPdfConverter: line preparation.  A Markdown text is the sequence of *)
(* its lines (text.splitlines()).                                          *)
(***************************************************************************)
IsSpace(c) == c \in {" ", "\t"}

RECURSIVE LStripSpace(_)
LStripSpace(s) ==
    IF s # <<>> /\ IsSpace(Head(s)) THEN LStripSpace(Tail(s)) ELSE s

RECURSIVE RStripSpace(_)
RStripSpace(s) ==
    IF s # <<>> /\ IsSpace(s[Len(s)]) THEN RStripSpace(SubSeq(s, 1, Len(s) - 1)) ELSE s

RECURSIVE LStripHash(_)
LStripHash(s) ==
    IF s # <<>> /\ Head(s) = "#" THEN LStripHash(Tail(s)) ELSE s

\* One line of _iterate_lines.
iterate_line(line) ==
    LET stripped == LStripSpace(line) IN
    IF stripped # <<>> /\ Head(stripped) = "#"
    THEN RStripSpace(LStripSpace(LStripHash(stripped)))
    ELSE line

\* line.replace("\t", "    ")
RECURSIVE ExpandTabs(_)
ExpandTabs(s) ==
    IF s = <<>> THEN <<>>
    ELSE (IF Head(s) = "\t" THEN <<" ", " ", " ", " ">> ELSE <<Head(s)>>)
         \o ExpandTabs(Tail(s))

\* max_width = pdf.w - pdf.l_margin - pdf.r_margin, in the width units of
\* CharWidth: a page on which the wide glyph does not fit.
pdf_max_width == MaxWidth

\* wrapped_lines of convert: every prepared line wrapped, in order.
RECURSIVE wrapped_lines(_)
wrapped_lines(text) ==
    IF text = <<>> THEN <<>>
    ELSE wrap_line(ExpandTabs(iterate_line(Head(text))), pdf_max_width)
         \o wrapped_lines(Tail(text))

\* The lines a Markdown file may hold.
RawLines == {<<>>, <<"i">>, <<"#", " ", "i", "m">>, <<"\t", "i">>, <<"W", "W">>}

\* The Markdown texts of at most maxN lines of the model: one line repeated.
MdTexts(maxN) == {[j \in 1..k |-> l] : k \in 0..maxN, l \in RawLines}

(***************************************************************************)
(* MdToPdfConverter: font resolution.  env is the process environment and  *)
(* the font files on disk: env.path is PDF2MD_FONT_PATH and env.dir is     *)
(* PDF2MD_FONT_DIR ("" when unset); env.files[f] is "absent", "broken"     *)
(* (the file exists and add_font raises on it) or "good".                  *)
(***************************************************************************)
FontX == "/opt/x.ttf"
FontA == "/app/fonts/a.ttf"
FontSys == "/usr/share/fonts/truetype/dejavu/DejaVuSans.ttf"
FontFiles == {FontX, FontA, FontSys}

\* The font files in sorted (lexicographic) order.
FontOrder == <<FontA, FontX, FontSys>>

FontDirOf(f) ==
    CASE f = FontX -> "/opt"
      [] f = FontA -> "/app/fonts"
      [] OTHER     -> "/usr/share/fonts/truetype/dejavu"

Exists(e, f) == e.files[f] # "absent"
Loadable(e, f) == e.files[f] = "good"

\* _scan_font_dir: the font files of the directory, sorted.
scan_font_dir(e, font_dir) ==
    SelectSeq(FontOrder, LAMBDA f : FontDirOf(f) = font_dir /\ Exists(e, f))

\* Another order, to compare font_candidates with: PDF2MD_FONT_DIR first.
font_candidates_DirFirst(e) ==
    (IF e.dir # "" THEN scan_font_dir(e, e.dir) ELSE <<>>)
    \o (IF e.path # "" /\ Exists(e, e.path) THEN <<e.path>> ELSE <<>>)
    \o scan_font_dir(e, "/app/fonts")
    \o SelectSeq(<<FontSys>>, LAMBDA f : Exists(e, f))

\* _font_candidates: PDF2MD_FONT_PATH, then PDF2MD_FONT_DIR, then the
\* fonts/ directories, then the system fonts.
font_candidates(e) ==
    (IF e.path # "" /\ Exists(e, e.path) THEN <<e.path>> ELSE <<>>)
    \o (IF e.dir # "" THEN scan_font_dir(e, e.dir) ELSE <<>>)
    \o scan_font_dir(e, "/app/fonts")
    \o SelectSeq(<<FontSys>>, LAMBDA f : Exists(e, f))

\* The cache of a fresh instance (__init__, lines 82-83).
NoFont == [name |-> "None", path |-> "None"]

\* The index of the first candidate add_font loads, 0 when none loads.
FirstLoadable(cands, e) ==
    IF \E k \in 1..Len(cands) : Loadable(e, cands[k])
    THEN CHOOSE k \in 1..Len(cands) :
            /\ Loadable(e, cands[k])
            /\ \A h \in 1..(k - 1) : ~Loadable(e, cands[h])
    ELSE 0

\* Another _ensure_font, to compare ensure_font with: it caches the first
\* candidate before trying to load it.
ensure_font_CachesBeforeLoad(f, e) ==
    IF f.name # "None" /\ f.path # "None"
    THEN [raised |-> IF Loadable(e, f.path) THEN "no" ELSE "add_font", font |-> f,
          scanned |-> FALSE]
    ELSE LET cands == font_candidates(e)
             k     == FirstLoadable(cands, e)
         IN IF k = 0
            THEN [raised |-> "RuntimeError", scanned |-> TRUE,
                  font   |-> IF cands = <<>> THEN f
                             ELSE [name |-> <<"Custom", Len(cands)>>,
                                   path |-> cands[Len(cands)]]]
            ELSE [raised |-> "no", scanned |-> TRUE,
                  font   |-> [name |-> <<"Custom", k>>, path |-> cands[k]]]

\* Another _ensure_font, to compare ensure_font with: it goes through the
\* candidates on every call.
ensure_font_Rescans(f, e) ==
    LET cands == font_candidates(e)
        k     == FirstLoadable(cands, e)
    IN IF k = 0
       THEN [raised |-> "RuntimeError", font |-> f, scanned |-> TRUE]
       ELSE [raised |-> "no", scanned |-> TRUE,
             font   |-> [name |-> <<"Custom", k>>, path |-> cands[k]]]

\* _ensure_font on a new FPDF object: what it raises ("no": it returns
\* font.name), the cache it leaves, and whether it scanned the candidates.
ensure_font(f, e) ==
    IF f.name # "None" /\ f.path # "None"
    THEN [raised |-> IF Loadable(e, f.path) THEN "no" ELSE "add_font", font |-> f,
          scanned |-> FALSE]
    ELSE LET cands == font_candidates(e)
             k     == FirstLoadable(cands, e)
         IN IF k = 0
            THEN [raised |-> "RuntimeError", font |-> f, scanned |-> TRUE]
            ELSE [raised |-> "no", scanned |-> TRUE,
                  font   |-> [name |-> <<"Custom", k>>, path |-> cands[k]]]

(***************************************************************************)
(* The convert calls, step by step.  c is the call's locals: pc, kind      *)
(* ("pdf" | "md"), src, dir, n (pages or wrapped lines), total, idx, used  *)
(* (the font file in use), scan (_ensure_font went through the candidates) *)
(* and err (what it raised).  d is what the call                           *)
(* has done on disk: mkdir (output_dir made), path (the output file's      *)
(* final name) and out ("none", "partial" or "complete": what is under     *)
(* that name by this call).  Each step gives the                           *)
(* set of its outcomes [c, cb, font, d]; cb holds the percents passed to   *)
(* progress_callback(str(src), percent).                                   *)
(***************************************************************************)
NoCall ==
    [pc |-> "idle", kind |-> "none", src |-> NoPath, dir |-> "", n |-> 0,
     total |-> 1, idx |-> 0, used |-> "None", scan |-> FALSE, err |-> "none"]

NoDisk == [mkdir |-> FALSE, out |-> "none", path |-> NoPath]

NewCall(kind, src, dir) ==
    [NoCall EXCEPT !.pc = IF kind = "pdf" THEN "pdf_open" ELSE "md_font",
                   !.kind = kind, !.src = src, !.dir = dir]

Outcome(c, cb, f, d) == [c |-> c, cb |-> cb, font |-> f, d |-> d]

Raise(c, what) == [c EXCEPT !.pc = "raised", !.err = what]

\* Lines 50-52: PdfReader(str(pdf_path)) raises, or gives the pages.
PdfOpen(c, f, d, maxN) ==
    {Outcome(Raise(c, "read"), <<>>, f, d)}
    \cup {Outcome([c EXCEPT !.pc = "pdf_pages", !.n = n, !.total = Max(n, 1)],
                  <<>>, f, d) : n \in 0..maxN}

\* Lines 54-58: one page; extract_text raises, or the page is reported.
PdfPage(c, f, d) ==
    {Outcome(Raise(c, "extract"), <<>>, f, d),
     Outcome([c EXCEPT !.idx = c.idx + 1], <<percent(c.idx + 1, c.total)>>, f, d)}

\* Line 60: output_dir.mkdir(parents=True, exist_ok=True).
PdfMkdir(c, f, d) ==
    {Outcome(Raise(c, "mkdir"), <<>>, f, d),
     Outcome([c EXCEPT !.pc = "pdf_write"], <<>>, f, [d EXCEPT !.mkdir = TRUE])}

\* Lines 61-63: md_path.write_text(content) on the final name.
PdfWrite(c, f, d) ==
    LET md_path == OutPath(c.dir, c.src, ".md") IN
    {Outcome(Raise(c, "write"), <<>>, f, d),
     Outcome(Raise(c, "write"), <<>>, f, [d EXCEPT !.out = "partial", !.path = md_path]),
     Outcome([c EXCEPT !.pc = "pdf_final"], <<>>, f,
             [d EXCEPT !.out = "complete", !.path = md_path])}

\* Lines 64-65: the last report and the return.
PdfFinal(c, f, d) ==
    {Outcome([c EXCEPT !.pc = "returned"], <<100>>, f, d)}

\* Lines 224-228: a new FPDF, its first page, and the font.
MdFont(c, f, e, d) ==
    LET r == ensure_font(f, e) IN
    IF r.raised # "no"
    THEN {Outcome([Raise(c, r.raised) EXCEPT !.scan = r.scanned], <<>>, r.font, d)}
    ELSE {Outcome([c EXCEPT !.pc = "md_read", !.used = r.font.path,
                            !.scan = r.scanned], <<>>, r.font, d)}

\* Lines 230-238: read_text raises, or the text is read, prepared and
\* wrapped.
MdRead(c, f, d, maxN) ==
    {Outcome(Raise(c, "read"), <<>>, f, d)}
    \cup {Outcome([c EXCEPT !.pc = "md_cells",
                            !.n = Len(wrapped_lines(t)),
                            !.total = Max(Len(wrapped_lines(t)), 1)],
                  <<>>, f, d) : t \in MdTexts(maxN)}

\* Lines 239-242: one wrapped line laid out and reported.
MdCell(c, f, d) ==
    {Outcome([c EXCEPT !.idx = c.idx + 1], <<percent(c.idx + 1, c.total)>>, f, d)}

\* Line 244: output_dir.mkdir(parents=True, exist_ok=True).
MdMkdir(c, f, d) ==
    {Outcome(Raise(c, "mkdir"), <<>>, f, d),
     Outcome([c EXCEPT !.pc = "md_output"], <<>>, f, [d EXCEPT !.mkdir = TRUE])}

\* Lines 245-246: pdf.output(str(pdf_path)) on the final name.
MdOutput(c, f, d) ==
    LET pdf_path == OutPath(c.dir, c.src, ".pdf") IN
    {Outcome(Raise(c, "write"), <<>>, f, d),
     Outcome(Raise(c, "write"), <<>>, f, [d EXCEPT !.out = "partial", !.path = pdf_path]),
     Outcome([c EXCEPT !.pc = "md_final"], <<>>, f,
             [d EXCEPT !.out = "complete", !.path = pdf_path])}

\* Lines 247-248: the last report and the return.
MdFinal(c, f, d) ==
    {Outcome([c EXCEPT !.pc = "returned"], <<100>>, f, d)}

\* The outcomes of the next step of call c; documents hold at most maxN
\* pages or lines.
ConvStep(c, f, e, d, maxN) ==
    CASE c.pc = "pdf_open"                     -> PdfOpen(c, f, d, maxN)
      [] c.pc = "pdf_pages" /\ c.idx < c.n     -> PdfPage(c, f, d)
      [] c.pc = "pdf_pages" /\ c.idx >= c.n    -> PdfMkdir(c, f, d)
      [] c.pc = "pdf_write"                    -> PdfWrite(c, f, d)
      [] c.pc = "pdf_final"                    -> PdfFinal(c, f, d)
      [] c.pc = "md_font"                      -> MdFont(c, f, e, d)
      [] c.pc = "md_read"                      -> MdRead(c, f, d, maxN)
      [] c.pc = "md_cells" /\ c.idx < c.n      -> MdCell(c, f, d)
      [] c.pc = "md_cells" /\ c.idx >= c.n     -> MdMkdir(c, f, d)
      [] c.pc = "md_output"                    -> MdOutput(c, f, d)
      [] c.pc = "md_final"                     -> MdFinal(c, f, d)
      [] OTHER                                 -> {}

Over(c) == c.pc \in {"idle", "returned", "raised"}

(***************************************************************************)
(* The converters called one call after another, the progress callback     *)
(* appending to reports; between calls the environment may change.         *)
(***************************************************************************)
MaxPages == 3
MaxItems == 50

SrcPdf == Path("/in", "a", ".pdf")
SrcMd == Path("/in", "n", ".md")
ConvSources == {SrcPdf, SrcMd}
ConvOutDir == "/out"

FontStates == {"absent", "broken", "good"}
Envs ==
    [path : FontFiles \cup {""}, dir : {"", "/opt"}, files : [FontFiles -> FontStates]]

ConvStart ==
    /\ call = NoCall
    /\ reports = <<>>
    /\ font = NoFont
    /\ env \in Envs
    /\ disk = NoDisk

\* The environment of a run whose fonts never change: the bundled font.
ConvStartFixed ==
    /\ call = NoCall
    /\ reports = <<>>
    /\ font = NoFont
    /\ env = [path |-> "", dir |-> "",
              files |-> [f \in FontFiles |-> IF f = FontA THEN "good" ELSE "absent"]]
    /\ disk = NoDisk

\* converter.convert(src, output_dir) is called.
ConvCall ==
    /\ Over(call)
    /\ \E kind \in {"pdf", "md"}, src \in ConvSources :
          call' = NewCall(kind, src, ConvOutDir)
    /\ reports' = <<>>
    /\ disk' = NoDisk
    /\ UNCHANGED <<font, env, wrapVars, appVars>>

\* The call in progress takes a step with one of the outcomes S.
ConvDo(S) ==
    /\ \E o \in S :
          /\ call' = o.c
          /\ reports' = reports \o o.cb
          /\ font' = o.font
          /\ disk' = o.d
    /\ UNCHANGED <<env, wrapVars, appVars>>

PdfOpenStep(maxN) == call.pc = "pdf_open" /\ ConvDo(PdfOpen(call, font, disk, maxN))
PdfPageStep ==
    call.pc = "pdf_pages" /\ call.idx < call.n /\ ConvDo(PdfPage(call, font, disk))
PdfMkdirStep ==
    call.pc = "pdf_pages" /\ call.idx >= call.n /\ ConvDo(PdfMkdir(call, font, disk))
PdfWriteStep == call.pc = "pdf_write" /\ ConvDo(PdfWrite(call, font, disk))
PdfFinalStep == call.pc = "pdf_final" /\ ConvDo(PdfFinal(call, font, disk))
MdFontStep == call.pc = "md_font" /\ ConvDo(MdFont(call, font, env, disk))
MdReadStep(maxN) == call.pc = "md_read" /\ ConvDo(MdRead(call, font, disk, maxN))
MdCellStep ==
    call.pc = "md_cells" /\ call.idx < call.n /\ ConvDo(MdCell(call, font, disk))
MdMkdirStep ==
    call.pc = "md_cells" /\ call.idx >= call.n /\ ConvDo(MdMkdir(call, font, disk))
MdOutputStep == call.pc = "md_output" /\ ConvDo(MdOutput(call, font, disk))
MdFinalStep == call.pc = "md_final" /\ ConvDo(MdFinal(call, font, disk))

\* Between calls: an environment variable is set or unset, or a font file
\* appears, breaks or goes.
EnvChange ==
    /\ Over(call)
    /\ \/ \E p \in FontFiles \cup {""} : env' = [env EXCEPT !.path = p]
       \/ \E p \in {"", "/opt"} : env' = [env EXCEPT !.dir = p]
       \/ \E f \in FontFiles, s \in FontStates : env' = [env EXCEPT !.files[f] = s]
    /\ env' # env
    /\ UNCHANGED <<call, reports, font, disk, wrapVars, appVars>>

\* One step of the call in progress, documents of at most maxN pages or
\* lines.
ConvRun(maxN) ==
    \/ PdfOpenStep(maxN)
    \/ PdfPageStep
    \/ PdfMkdirStep
    \/ PdfWriteStep
    \/ PdfFinalStep
    \/ MdFontStep
    \/ MdReadStep(maxN)
    \/ MdCellStep
    \/ MdMkdirStep
    \/ MdOutputStep
    \/ MdFinalStep


(***************************************************************************)
(* Pdf2MdApp (app.py).  Two kinds of thread run: the Tk main thread, whose *)
(* event handlers and queued "after" callbacks run one at a time, and the  *)
(* worker threads of _convert_worker.  A worker takes one step per access  *)
(* to state it shares with the main thread (self.items, self.mode, the Tk  *)
(* "after" queue) and one per step of the converter it calls; the steps    *)
(* of the two kinds of thread interleave freely.                           *)
(***************************************************************************)
\* Bounds: the thread objects that can be alive at once, the callbacks that
\* can wait in the "after" queue (a worker step that queues one waits for
\* room), the pages or lines of a document, and the actions the user takes.
MaxThreads == 2
MaxPending == 2
AppMaxPages == 1
MaxClicks == 4

\* The pages of a document of the long job (SpecRow).
MaxRowPages == 101

ThreadIds == 1..MaxThreads

\* The files the user can pick in the file dialogs, and the directories of
\* the output directory dialog and entry ("": the entry emptied).
FileP1 == Path("/in", "a", ".pdf")
FileP2 == Path("/in2", "a", ".pdf")
FileM1 == Path("/in", "n", ".md")
InputFiles == {FileP1, FileP2, FileM1}
OutputDirs == {"", "/out"}
Modes == {"pdf2md", "md2pdf"}

\* str.lower() on a suffix
Lower(s) == CASE s = ".PDF" -> ".pdf" [] s = ".MD" -> ".md" [] OTHER -> s

\* file_path.name
Name(p) == [stem |-> p.stem, suffix |-> p.suffix]

\* FileItem(parent, file_path): progress_var 0, status_var "waiting"; the
\* status texts of the code are written waiting, converting, done, failed.
FileItem(p) == [path |-> p, progress |-> 0, status |-> "waiting"]

Keys(its) == {its[k].path : k \in 1..Len(its)}

\* str(file_path) in self.items
HasKey(its, p) == p \in Keys(its)

\* self.items[str(file_path)]
KeyIndex(its, p) == CHOOSE k \in 1..Len(its) : its[k].path = p

is_ext_valid(m, p) ==
    \/ (m = "pdf2md" /\ Lower(p.suffix) = ".pdf")
    \/ (m = "md2pdf" /\ Lower(p.suffix) = ".md")

ext_filter_desc(m) == IF m = "pdf2md" THEN ".pdf" ELSE ".md"

\* messagebox.showinfo / messagebox.showerror
NoDialog == [kind |-> "none", text |-> "", name |-> Name(NoPath)]
ShowInfo(text) == [kind |-> "info", text |-> text, name |-> Name(NoPath)]
ShowError(p, err) == [kind |-> "error", text |-> err, name |-> Name(p)]

\* A callback queued by root.after(0, _apply).
After(kind, p, percent_, text) ==
    [kind |-> kind, path |-> p, percent |-> percent_, text |-> text]

update_progress_async(q, its, p, percent_) ==
    IF ~HasKey(its, p) THEN q ELSE Append(q, After("progress", p, percent_, ""))

update_status_async(q, its, p, status) ==
    IF ~HasKey(its, p) THEN q ELSE Append(q, After("status", p, 0, status))

show_error_async(q, p, err) == Append(q, After("error", p, 0, err))

\* _on_progress(file_path, percent), for the reports cb of one converter
\* step (none or one).
on_progress(q, its, src, cb) ==
    IF cb = <<>> THEN q ELSE update_progress_async(q, its, src, cb[1])

\* A worker thread: pc, the dict iterator of its for loop (used: the size
\* of self.items when the iterator was made, pos: the next position, left:
\* the entries it still expects), src_path (key), its argument output_dir
\* (out), the converter call it is in (c, d); and, for the record, the keys
\* of self.items when it was started (job) and what it has done to each
\* file it has finished with (run).
Dead ==
    [pc |-> "dead", used |-> 0, pos |-> 0, left |-> 0, key |-> NoPath, out |-> "",
     c |-> NoCall, d |-> NoDisk, job |-> {}, run |-> {}]

NewThread(dir, its) == [Dead EXCEPT !.pc = "begin", !.out = dir, !.job = Keys(its)]

\* Another test, to compare is_alive with: no thread is ever seen alive.
is_alive_Never(w, ths) == FALSE

\* self.worker and self.worker.is_alive()
is_alive(w, ths) == w # 0 /\ ths[w].pc # "dead"

Alive(ths) == {id \in ThreadIds : ths[id].pc # "dead"}

\* iter(self.items.items())
dict_iter(t, its) ==
    [t EXCEPT !.pc = "next", !.used = Len(its), !.pos = 0, !.left = Len(its)]

\* next() on the dict iterator: RuntimeError when the dict's size is not
\* the one the iterator was made with, exhaustion at the end of the
\* entries, RuntimeError when an entry is found that the iterator did not
\* expect, else the entry at the position.
dict_next(t, its) ==
    IF t.used # Len(its) THEN [Dead EXCEPT !.pc = "RuntimeError"]
    ELSE IF t.pos >= Len(its) THEN [Dead EXCEPT !.pc = "exhausted"]
    ELSE IF t.left = 0 THEN [Dead EXCEPT !.pc = "RuntimeError"]
    ELSE [t EXCEPT !.pc = "status_converting", !.key = its[t.pos + 1].path,
                   !.pos = t.pos + 1, !.left = t.left - 1]

\* Another end of the loop body, to compare EndOfPass with: the thread
\* stops with an exception.
EndOfPass_Stops(t) == [Dead EXCEPT !.pc = "exception"]

\* The end of the loop body, after the try statement: the locals of the
\* pass are dropped, the loop goes to its next() again.
EndOfPass(t) == [t EXCEPT !.pc = "next", !.key = NoPath, !.c = NoCall, !.d = NoDisk]

\* What the thread has done to the file of the pass that ends.
Done(t, res) == [src |-> t.key, res |-> res, out |-> t.d.path, file |-> t.d.out]

\* The end of a pass of the loop body with the result res.
Pass(t, res) == EndOfPass([t EXCEPT !.run = @ \cup {Done(t, res)}])

\* The environments of the application: no font at all, or the bundled one.
AppEnvs ==
    {[path |-> "", dir |-> "", files |-> [f \in FontFiles |-> "absent"]],
     [path |-> "", dir |-> "",
      files |-> [f \in FontFiles |-> IF f = FontA THEN "good" ELSE "absent"]]}

\* Pdf2MdApp.__init__
AppStart ==
    /\ mode = "pdf2md"
    /\ output_dir = ""
    /\ items = <<>>
    /\ afterq = <<>>
    /\ worker = 0
    /\ threads = [id \in ThreadIds |-> Dead]
    /\ dialog = NoDialog
    /\ clicks = 0

(***************************************************************************)
(* The main thread: the user's actions.  A message box is modal: while it  *)
(* is shown the user can only dismiss it; queued callbacks still run.      *)
(***************************************************************************)
\* _select_single / _select_multiple: _append_file for a chosen file.
AppendFile ==
    /\ dialog = NoDialog
    /\ clicks < MaxClicks
    /\ clicks' = clicks + 1
    /\ \E p \in InputFiles :
          IF HasKey(items, p)
          THEN UNCHANGED <<dialog, output_dir, items>>
          ELSE IF ~is_ext_valid(mode, p)
          THEN /\ dialog' = ShowInfo(ext_filter_desc(mode))
               /\ UNCHANGED <<output_dir, items>>
          ELSE /\ output_dir' = IF output_dir = "" THEN p.parent ELSE output_dir
               /\ items' = Append(items, FileItem(p))
               /\ UNCHANGED dialog
    /\ UNCHANGED <<mode, afterq, worker, threads>>
    /\ UNCHANGED <<wrapVars, convVars>>

\* _select_output_dir, or the entry bound to self.output_dir edited.
SelectOutputDir ==
    /\ dialog = NoDialog
    /\ clicks < MaxClicks
    /\ clicks' = clicks + 1
    /\ \E dir \in OutputDirs : output_dir' = dir
    /\ UNCHANGED <<mode, items, afterq, worker, threads, dialog>>
    /\ UNCHANGED <<wrapVars, convVars>>

\* A radio button is clicked: Tk sets self.mode, then _on_mode_change.
OnModeChange ==
    /\ dialog = NoDialog
    /\ clicks < MaxClicks
    /\ clicks' = clicks + 1
    /\ \E m \in Modes : mode' = m
    /\ items' = <<>>
    /\ UNCHANGED <<output_dir, afterq, worker, threads, dialog>>
    /\ UNCHANGED <<wrapVars, convVars>>

\* _start_convert
StartConvert ==
    /\ dialog = NoDialog
    /\ clicks < MaxClicks
    /\ clicks' = clicks + 1
    /\ IF items = <<>>
       THEN dialog' = ShowInfo("need_files") /\ UNCHANGED <<worker, threads>>
       ELSE IF is_alive(worker, threads)
       THEN dialog' = ShowInfo("busy") /\ UNCHANGED <<worker, threads>>
       ELSE IF output_dir = ""
       THEN dialog' = ShowInfo("need_dir") /\ UNCHANGED <<worker, threads>>
       ELSE /\ \E id \in ThreadIds :
                 /\ threads[id].pc = "dead"
                 /\ \A other \in ThreadIds : threads[other].pc = "dead" => id <= other
                 /\ worker' = id
                 /\ threads' = [threads EXCEPT ![id] = NewThread(output_dir, items)]
            /\ UNCHANGED dialog
    /\ UNCHANGED <<mode, output_dir, items, afterq>>
    /\ UNCHANGED <<wrapVars, convVars>>

\* The user closes the message box.
Dismiss ==
    /\ dialog # NoDialog
    /\ dialog' = NoDialog
    /\ UNCHANGED <<mode, output_dir, items, afterq, worker, threads>>
    /\ UNCHANGED <<clicks, wrapVars, convVars>>

\* The main loop runs the oldest queued callback: _apply of
\* _update_progress_async, _update_status_async or _show_error_async.  An
\* error box takes the place of the box on the screen.
ApplyAfter ==
    /\ afterq # <<>>
    /\ afterq' = Tail(afterq)
    /\ LET h == Head(afterq) IN
       CASE h.kind = "error" ->
              /\ dialog' = ShowError(h.path, h.text)
              /\ UNCHANGED items
         [] h.kind # "error" /\ ~HasKey(items, h.path) ->
              \* KeyError, reported by Tk; the callback has no effect
              UNCHANGED <<items, dialog>>
         [] h.kind = "progress" /\ HasKey(items, h.path) ->
              /\ items' = [items EXCEPT ![KeyIndex(items, h.path)].progress = h.percent]
              /\ UNCHANGED dialog
         [] h.kind = "status" /\ HasKey(items, h.path) ->
              /\ items' = [items EXCEPT ![KeyIndex(items, h.path)].status = h.text]
              /\ UNCHANGED dialog
    /\ UNCHANGED <<mode, output_dir, worker, threads>>
    /\ UNCHANGED <<clicks, wrapVars, convVars>>

(***************************************************************************)
(* A worker thread: _convert_worker(output_dir).                           *)
(***************************************************************************)
Room == Len(afterq) < MaxPending

\* for file_key, item in self.items.items(): the iterator is made.
WorkerBegin ==
    /\ \E id \in ThreadIds :
          /\ threads[id].pc = "begin"
          /\ threads' = [threads EXCEPT ![id] = dict_iter(threads[id], items)]
    /\ UNCHANGED <<mode, output_dir, items, afterq, worker, dialog>>
    /\ UNCHANGED <<clicks, wrapVars, convVars>>

\* The for statement takes the next entry, or the thread ends.
WorkerNext ==
    /\ \E id \in ThreadIds :
          /\ threads[id].pc = "next"
          /\ LET t == dict_next(threads[id], items) IN
             threads' = [threads EXCEPT ![id] =
                            IF t.pc \in {"RuntimeError", "exhausted"} THEN Dead ELSE t]
    /\ UNCHANGED <<mode, output_dir, items, afterq, worker, dialog>>
    /\ UNCHANGED <<clicks, wrapVars, convVars>>

\* self._update_status_async(src_path, "converting")
WorkerStatusConverting ==
    /\ Room
    /\ \E id \in ThreadIds :
          /\ threads[id].pc = "status_converting"
          /\ afterq' = update_status_async(afterq, items, threads[id].key, "converting")
          /\ threads' = [threads EXCEPT ![id].pc = "progress_one"]
    /\ UNCHANGED <<mode, output_dir, items, worker, dialog>>
    /\ UNCHANGED <<clicks, wrapVars, convVars>>

\* self._update_progress_async(src_path, 1)
WorkerProgressOne ==
    /\ Room
    /\ \E id \in ThreadIds :
          /\ threads[id].pc = "progress_one"
          /\ afterq' = update_progress_async(afterq, items, threads[id].key, 1)
          /\ threads' = [threads EXCEPT ![id].pc = "check"]
    /\ UNCHANGED <<mode, output_dir, items, worker, dialog>>
    /\ UNCHANGED <<clicks, wrapVars, convVars>>

\* if not self._is_ext_valid(src_path): raise ValueError(...)
WorkerCheck ==
    /\ \E id \in ThreadIds :
          /\ threads[id].pc = "check"
          /\ LET t == threads[id] IN
             threads' =
                [threads EXCEPT ![id] =
                    IF is_ext_valid(mode, t.key)
                    THEN [t EXCEPT !.pc = "pick"]
                    ELSE [t EXCEPT !.pc = "status_failed",
                                   !.c = Raise([NoCall EXCEPT !.src = t.key], "ValueError")]]
    /\ UNCHANGED <<mode, output_dir, items, afterq, worker, dialog>>
    /\ UNCHANGED <<clicks, wrapVars, convVars>>

\* if self.mode.get() == "pdf2md": self.pdf_converter.convert(...) else:
\* self.md_converter.convert(...): the converter is entered.
WorkerPick ==
    /\ \E id \in ThreadIds :
          /\ threads[id].pc = "pick"
          /\ LET t == threads[id] IN
             threads' =
                [threads EXCEPT ![id] =
                    [t EXCEPT !.pc = "convert",
                              !.c = NewCall(IF mode = "pdf2md" THEN "pdf" ELSE "md",
                                            t.key, t.out)]]
    /\ UNCHANGED <<mode, output_dir, items, afterq, worker, dialog>>
    /\ UNCHANGED <<clicks, wrapVars, convVars>>

\* One step of the converter call, its reports passed to _on_progress; the
\* call returns to the try block or raises into the except clause.
\* Documents hold at most maxN pages or lines.
WorkerConvertOf(maxN) ==
    /\ Room
    /\ \E id \in ThreadIds :
          /\ threads[id].pc = "convert"
          /\ \E o \in ConvStep(threads[id].c, font, env, threads[id].d, maxN) :
                /\ font' = o.font
                /\ afterq' = on_progress(afterq, items, threads[id].c.src, o.cb)
                /\ threads' =
                      [threads EXCEPT ![id] =
                          [@ EXCEPT !.c = o.c, !.d = o.d,
                                    !.pc = CASE o.c.pc = "returned" -> "status_done"
                                             [] o.c.pc = "raised" -> "status_failed"
                                             [] OTHER -> "convert"]]
    /\ UNCHANGED <<mode, output_dir, items, worker, dialog>>
    /\ UNCHANGED <<clicks, wrapVars, call, reports, env, disk>>

WorkerConvert == WorkerConvertOf(AppMaxPages)

\* self._update_status_async(src_path, "done"), the end of the try block.
WorkerStatusDone ==
    /\ Room
    /\ \E id \in ThreadIds :
          /\ threads[id].pc = "status_done"
          /\ afterq' = update_status_async(afterq, items, threads[id].key, "done")
          /\ threads' = [threads EXCEPT ![id] = Pass(@, "done")]
    /\ UNCHANGED <<mode, output_dir, items, worker, dialog>>
    /\ UNCHANGED <<clicks, wrapVars, convVars>>

\* except Exception: self._update_status_async(src_path, "failed")
WorkerStatusFailed ==
    /\ Room
    /\ \E id \in ThreadIds :
          /\ threads[id].pc = "status_failed"
          /\ afterq' = update_status_async(afterq, items, threads[id].key, "failed")
          /\ threads' = [threads EXCEPT ![id].pc = "show_error"]
    /\ UNCHANGED <<mode, output_dir, items, worker, dialog>>
    /\ UNCHANGED <<clicks, wrapVars, convVars>>

\* self._show_error_async(src_path, exc), the end of the except clause.
WorkerShowError ==
    /\ Room
    /\ \E id \in ThreadIds :
          /\ threads[id].pc = "show_error"
          /\ afterq' = show_error_async(afterq, threads[id].key, threads[id].c.err)
          /\ threads' = [threads EXCEPT ![id] = Pass(@, "failed")]
    /\ UNCHANGED <<mode, output_dir, items, worker, dialog>>
    /\ UNCHANGED <<clicks, wrapVars, convVars>>

(***************************************************************************)
(* One long job: the user queues one file and presses start once; the      *)
(* document holds up to MaxRowPages pages.                                 *)
(***************************************************************************)
\* The first file is queued.
RowAppend == items = <<>> /\ AppendFile

\* Start is pressed for the first time.
RowStart == worker = 0 /\ StartConvert

RowConvert == WorkerConvertOf(MaxRowPages)

(***************************************************************************)
(* Specifications.  Each runs one part of the program; the variables of    *)
(* the other parts stay as they are.                                       *)
(***************************************************************************)
WrapIdle ==
    /\ wline = <<>>
    /\ wmax = 0
    /\ wpos = 0
    /\ current = <<>>
    /\ wrapped = <<>>
    /\ wpc = "done"

WrapInit == WrapStart /\ ConvStartFixed /\ AppStart
ConvInit == WrapIdle /\ ConvStart /\ AppStart
ProgressInit == WrapIdle /\ ConvStartFixed /\ AppStart

\* The application starts: no converter call outside the worker threads.
Init ==
    /\ WrapIdle
    /\ AppStart
    /\ call = NoCall
    /\ reports = <<>>
    /\ font = NoFont
    /\ env \in AppEnvs
    /\ disk = NoDisk

ConvNext == ConvCall \/ ConvRun(MaxPages) \/ EnvChange

ProgressNext == ConvCall \/ ConvRun(MaxItems)

Next ==
    \/ AppendFile
    \/ SelectOutputDir
    \/ OnModeChange
    \/ StartConvert
    \/ Dismiss
    \/ ApplyAfter
    \/ WorkerBegin
    \/ WorkerNext
    \/ WorkerStatusConverting
    \/ WorkerProgressOne
    \/ WorkerCheck
    \/ WorkerPick
    \/ WorkerConvert
    \/ WorkerStatusDone
    \/ WorkerStatusFailed
    \/ WorkerShowError

RowNext ==
    \/ RowAppend
    \/ RowStart
    \/ Dismiss
    \/ ApplyAfter
    \/ WorkerBegin
    \/ WorkerNext
    \/ WorkerStatusConverting
    \/ WorkerProgressOne
    \/ WorkerCheck
    \/ WorkerPick
    \/ RowConvert
    \/ WorkerStatusDone
    \/ WorkerStatusFailed
    \/ WorkerShowError

\* Calls of _wrap_line.
SpecWrap == WrapInit /\ [][WrapNext]_vars

\* The for loop of _wrap_line is a sequential program: it takes its next step.
SpecWrapFair == SpecWrap /\ WF_vars(WrapNext)

\* Calls of the two converters, documents of at most MaxPages pages or
\* lines, in a changing font environment.
SpecConv == ConvInit /\ [][ConvNext]_vars

\* Calls of the two converters, documents of at most MaxItems pages or
\* lines, the fonts fixed.
SpecProgress == ProgressInit /\ [][ProgressNext]_vars


\* The application: the user's actions on the main thread, the queued
\* callbacks, and the worker threads, documents of at most AppMaxPages pages
\* or lines.
Spec == Init /\ [][Next]_vars

\* The application with one long job: one file queued, start pressed once,
\* a document of at most MaxRowPages pages.
SpecRow == Init /\ [][RowNext]_vars

(***************************************************************************)
(* Claims about _wrap_line.                                                *)
(***************************************************************************)

\* C1: for a max width W > 0, every wrapped line _wrap_line returns has
\* measured width <= W or consists of exactly one character.
C1_WrappedFitOrSingle ==
    (wpc = "done" /\ wmax > 0) =>
        \A k \in 1..Len(wrapped) :
            \/ get_string_width(wrapped[k]) <= wmax
            \/ Len(wrapped[k]) = 1

\* C1's case: a returned wrap holding an over-wide one-character line and a
\* line of several characters that fits.
C1_Witness ==
    /\ wpc = "done"
    /\ wmax > 0
    /\ \E k \in 1..Len(wrapped) :
          Len(wrapped[k]) = 1 /\ get_string_width(wrapped[k]) > wmax
    /\ \E k \in 1..Len(wrapped) :
          Len(wrapped[k]) > 1 /\ get_string_width(wrapped[k]) <= wmax

\* C2: the wrapped lines _wrap_line returns, concatenated in order, are the
\* logical line itself, for any max width.
C2_ConcatIsLine ==
    (wpc = "done") => Concat(wrapped) = wline

\* C2's case: a returned wrap of several lines, one of them a character
\* wider than the max width.
C2_Witness ==
    /\ wpc = "done"
    /\ Len(wrapped) >= 3
    /\ \E k \in 1..Len(wrapped) : get_string_width(wrapped[k]) > wmax

\* Every character of the line is wider than the max width alone.
AllOverwide == \A i \in 1..Len(wline) : CharWidth(wline[i]) > wmax

\* C3: _wrap_line terminates, and returns at least one wrapped line; for
\* the empty line exactly the one empty string; for n characters each wider
\* than the max width, exactly n one-character lines.
C3_WrapTerminates ==
    <>[](/\ wpc = "done"
         /\ Len(wrapped) >= 1
         /\ (wline = <<>> => wrapped = << <<>> >>)
         /\ (AllOverwide /\ wline # <<>> =>
                /\ Len(wrapped) = Len(wline)
                /\ \A k \in 1..Len(wrapped) : wrapped[k] = <<wline[k]>>))

\* C3's case: a returned wrap of a line of several over-wide characters.
C3_Witness ==
    /\ wpc = "done"
    /\ Len(wline) >= 3
    /\ AllOverwide
    /\ Len(wrapped) = Len(wline)

(***************************************************************************)
(* Claims about the converters.                                            *)
(***************************************************************************)

\* The percents reported never decrease, stay within 0..100, and a call
\* that returned reported 100 last.
ProgressMonotoneEnds100 ==
    /\ \A k \in 1..Len(reports) : reports[k] \in 0..100
    /\ \A k \in 1..(Len(reports) - 1) : reports[k] <= reports[k + 1]
    /\ call.pc = "returned" => (reports # <<>> /\ reports[Len(reports)] = 100)

\* C4: within one convert call the percents reported never decrease, each
\* is in 0..100, the report after page (or wrapped line) k of total is
\* floor(k / total * 100), and a call that returns reports exactly 100
\* last, also for a document of zero pages or lines.
C4_ProgressFloor ==
    /\ ProgressMonotoneEnds100
    /\ \A k \in 1..call.idx : reports[k] = (k * 100) \div call.total

\* PDF2MD_FONT_PATH points at a font file that exists and loads.
EnvPathValid == env.path # "" /\ Loadable(env, env.path)

\* This step is _ensure_font of a Markdown call returning a font.
FontResolvedStep ==
    call.kind = "md" /\ call.pc = "md_font" /\ call'.pc = "md_read"

\* C5 as stated: whenever a convert call resolves its font while
\* PDF2MD_FONT_PATH points at a valid font file, the font used is that
\* file, whatever earlier calls on the instance did.
C5_EnvPathAlwaysUsed ==
    [][(FontResolvedStep /\ EnvPathValid) => call'.used = env.path]_vars

\* C5: a convert call that resolves its font on an instance that caches no
\* font yet, while PDF2MD_FONT_PATH points at a valid font file, uses and
\* caches that exact file, as Custom1, whatever the other candidates; a
\* call on an instance that caches a font uses the cached file.
C5_EnvPathUsedOnFirstResolve ==
    [][FontResolvedStep =>
          /\ (font = NoFont /\ EnvPathValid) =>
                /\ call'.used = env.path
                /\ font' = [name |-> <<"Custom", 1>>, path |-> env.path]
          /\ font # NoFont => (call'.used = font.path /\ font' = font)]_vars

\* C5's case: a call in progress got the font of PDF2MD_FONT_PATH by a scan
\* while the font directory override, the fonts/ directory and the system
\* fonts all hold a loadable font.
C5_Witness ==
    /\ call.kind = "md"
    /\ call.pc = "md_read"
    /\ call.scan
    /\ env.path = FontSys
    /\ env.dir = "/opt"
    /\ \A f \in FontFiles : Loadable(env, f)
    /\ call.used = FontSys
    /\ font.path = FontSys

\* No candidate of the environment loads.
NoCandidateLoads ==
    \A k \in 1..Len(font_candidates(env)) : ~Loadable(env, font_candidates(env)[k])

\* This step is _ensure_font of a Markdown call on an instance that caches
\* no font: the candidates are gone through.
FontScanStep ==
    call.kind = "md" /\ call.pc = "md_font" /\ call'.pc # "md_font" /\ font = NoFont

\* C6: a convert call in which no font candidate loads fails with the
\* resolution error before producing anything: nothing is reported, the
\* output directory is not made, no output file is written, and no font is
\* cached on the instance; and the resolution error is raised in no other
\* case.
C6_NoFontNoOutput ==
    [][FontScanStep =>
          /\ NoCandidateLoads =>
                /\ call'.pc = "raised"
                /\ call'.err = "RuntimeError"
                /\ reports' = <<>>
                /\ disk' = NoDisk
                /\ font' = NoFont
          /\ call'.err = "RuntimeError" => NoCandidateLoads]_vars

\* C6's case: a call failed on the font, nothing cached, reported or
\* written, while candidates existed.
C6_Witness ==
    /\ call.kind = "md"
    /\ call.pc = "raised"
    /\ call.err = "RuntimeError"
    /\ font = NoFont
    /\ reports = <<>>
    /\ disk = NoDisk
    /\ NoCandidateLoads
    /\ Len(font_candidates(env)) >= 2


\* A call that raised before its write step: while opening or reading the
\* source, extracting a page, or resolving the font.
RaisedBeforeWrite == call.pc = "raised" /\ call.err \notin {"mkdir", "write"}

\* The part of C11 about failures before the write step: no output file is
\* written and the output directory is not made.
NothingBeforeWrite == RaisedBeforeWrite => disk = NoDisk

\* C11: a convert call that raised, at whatever step, has left nothing
\* under the final name of its output file; and one that raised before its
\* write step has written no output file and not made the output directory.
C11_NoPartialOutput ==
    /\ call.pc = "raised" => disk.out = "none"
    /\ NothingBeforeWrite

\* This step is _ensure_font of a Markdown call on an instance that caches
\* a font.
FontCachedStep ==
    call.kind = "md" /\ call.pc = "md_font" /\ call'.pc # "md_font" /\ font # NoFont

\* C12: the cached font name and path are both unset or both set; once set
\* they never change; and a convert call on an instance that caches a font
\* does not go through the candidates: it registers the cached font file on
\* its new document (raising if the file no longer loads) and uses it.
C12_FontResolvedOnce ==
    /\ []((font.name = "None") <=> (font.path = "None"))
    /\ [][/\ font # NoFont => font' = font
          /\ FontCachedStep =>
                /\ ~call'.scan
                /\ IF Loadable(env, font.path)
                   THEN call'.pc = "md_read" /\ call'.used = font.path
                   ELSE call'.pc = "raised" /\ call'.err = "add_font"]_vars

\* C12's case: a later call uses the cached font although the candidates,
\* gone through now, would give another font file.
C12_Witness ==
    /\ call.kind = "md"
    /\ call.pc = "md_read"
    /\ ~call.scan
    /\ call.used = font.path
    /\ LET cands == font_candidates(env) IN
       /\ FirstLoadable(cands, env) # 0
       /\ cands[FirstLoadable(cands, env)] # font.path


(***************************************************************************)
(* Claims about Pdf2MdApp (Spec).                                          *)
(***************************************************************************)
\* The converter calls in progress: a thread is inside convert.
Converting == {id \in ThreadIds : threads[id].pc = "convert"}

\* C7: at every moment at most one worker thread exists, it is self.worker,
\* and at most one convert call is in progress; while a worker is alive no
\* step makes a new thread or changes self.worker, and the step that shows
\* the "already converting" box is taken with a worker alive and changes
\* nothing else.
C7_OneWorkerStartRejected ==
    /\ [](/\ Cardinality(Alive(threads)) <= 1
          /\ Alive(threads) \subseteq {worker}
          /\ Cardinality(Converting) <= 1)
    /\ [][/\ is_alive(worker, threads) =>
                /\ worker' = worker
                /\ \A id \in ThreadIds :
                      threads[id].pc = "dead" => threads'[id].pc = "dead"
          /\ (dialog' = ShowInfo("busy") /\ dialog # dialog') =>
                /\ is_alive(worker, threads)
                /\ UNCHANGED <<mode, output_dir, items, afterq, worker, threads>>
                /\ UNCHANGED convVars]_vars

\* C7's case: the start button was pressed while the worker was inside a
\* converter call, and was answered with the "already converting" box.
C7_Witness ==
    /\ dialog = ShowInfo("busy")
    /\ is_alive(worker, threads)
    /\ threads[worker].pc = "convert"

\* C8: every exception of a pass (the extension check, the converter call)
\* enters the except clause for that file; the except clause queues the
\* "failed" status for the file's row if the row is in the queue, then
\* queues the error box for the file, and the thread is back at the head of
\* its loop with its iterator as it was, the file recorded as failed; the
\* queued status, applied, marks the row, and the queued error, applied,
\* shows the box with the file's name.
C8_FailureMarkedSurfacedContinues ==
    [][/\ \A id \in ThreadIds :
             LET t == threads[id]
                 u == threads'[id]
             IN  /\ (t.pc \in {"check", "convert"} /\ u.c.pc = "raised") =>
                       (u.pc = "status_failed" /\ u.key = t.key)
                 /\ (t.pc = "status_failed" /\ u # t) =>
                       /\ u = [t EXCEPT !.pc = "show_error"]
                       /\ HasKey(items, t.key) =>
                             afterq' = Append(afterq, After("status", t.key, 0, "failed"))
                 /\ (t.pc = "show_error" /\ u # t) =>
                       /\ afterq' = Append(afterq, After("error", t.key, 0, t.c.err))
                       /\ u.pc = "next"
                       /\ <<u.used, u.pos, u.left>> = <<t.used, t.pos, t.left>>
                       /\ \E r \in u.run : r.src = t.key /\ r.res = "failed"
       /\ (afterq # <<>> /\ afterq' = Tail(afterq)) =>
             LET h == Head(afterq) IN
             /\ h.kind = "error" =>
                   (dialog'.kind = "error" /\ dialog'.name = Name(h.path))
             /\ (h.kind = "status" /\ HasKey(items, h.path)) =>
                   items'[KeyIndex(items, h.path)].status = h.text]_vars

\* C8's case: a file of the job failed, its row is marked failed, the error
\* box for it is on the screen, and the worker is converting a later file.
C8_Witness ==
    \E id \in ThreadIds :
       /\ threads[id].pc = "convert"
       /\ \E r \in threads[id].run :
             /\ r.res = "failed"
             /\ r.src # threads[id].key
             /\ HasKey(items, r.src)
             /\ items[KeyIndex(items, r.src)].status = "failed"
             /\ dialog.kind = "error"
             /\ dialog.name = Name(r.src)

\* C9: when a worker thread ends, every file that was in the queue when it
\* was started has been processed by it (as done or as failed), whatever
\* the user did meanwhile.
C9_QueueRunsToCompletion ==
    [][\A id \in ThreadIds :
          (threads[id].pc # "dead" /\ threads'[id].pc = "dead") =>
             threads[id].job \subseteq {r.src : r \in threads[id].run}]_vars

\* C10: when a worker has converted every file of the queue it was started
\* with successfully, the queue still as it was, each input has an output
\* file of its own in the worker's output directory under the input's base
\* name: as many output files as inputs.
C10_OneOutputPerInput ==
    \A id \in ThreadIds :
       LET t == threads[id] IN
       (/\ Keys(items) = t.job
        /\ {r.src : r \in t.run} = t.job
        /\ \A r \in t.run : r.res = "done")
       => /\ \A r \in t.run : r.out.parent = t.out /\ r.out.stem = r.src.stem
          /\ Cardinality({r.out : r \in t.run}) = Cardinality(t.job)

\* C13: the worker reads no queue and no mode that the main thread changes
\* under it, and the main thread calls no converter: the dict iterator of a
\* worker's loop is never invalidated by a change of self.items, the mode
\* a worker read for its extension check is the mode it reads to pick the
\* converter, and no convert call runs outside the worker threads.
C13_WorkerSeesNoUiChange ==
    /\ \A id \in ThreadIds :
          /\ threads[id].pc = "next" =>
                dict_next(threads[id], items).pc # "RuntimeError"
          /\ threads[id].pc = "pick" => is_ext_valid(mode, threads[id].key)
    /\ call = NoCall

\* C14: every progress value applied to a file's row during the job is in
\* 0..100 and not below the value the row shows.
C14_RowProgressMonotone ==
    [][(/\ afterq # <<>>
        /\ afterq' = Tail(afterq)
        /\ Head(afterq).kind = "progress"
        /\ HasKey(items, Head(afterq).path))
       => /\ Head(afterq).percent \in 0..100
          /\ items[KeyIndex(items, Head(afterq).path)].progress <= Head(afterq).percent]_vars

\* C15: whenever the main thread applies a scheduled progress or status
\* update, the file it names is a key of self.items: the lookup in _apply
\* finds the row.
C15_AppliedUpdateFindsRow ==
    [][(/\ afterq # <<>>
        /\ afterq' = Tail(afterq)
        /\ Head(afterq).kind \in {"progress", "status"})
       => HasKey(items, Head(afterq).path)]_vars

\* C16: every converter call of a worker is on a file of the converter's
\* kind: PdfConverter.convert on a .pdf path, MdToPdfConverter.convert on a
\* .md path.
C16_ConverterMatchesExtension ==
    \A id \in ThreadIds :
       LET c == threads[id].c IN
       /\ c.kind = "pdf" => Lower(c.src.suffix) = ".pdf"
       /\ c.kind = "md" => Lower(c.src.suffix) = ".md"

====
